---- MODULE Spec2Model ----
(***************************************************************************)
(* Model of the pharmacy collector (src/desenvolvimento.py): the rate      *)
(* limited, retrying fetch_json, the search / dedup / enrichment pipeline  *)
(* of collect_data and the per-city persistence of main.                   *)
(*                                                                         *)
(* Three specifications:                                                   *)
(*   SpecCall  one fetch_json call, attempt by attempt, with its history;  *)
(*   SpecPool  the concurrent fetch_json calls contending for SEM;         *)
(*   Spec      collect_data and main over MaxRuns consecutive runs.        *)
(***************************************************************************)
EXTENDS Integers, Sequences, FiniteSets, TLC

(***************************************************************************)
(* Bounds of the model.                                                    *)
(***************************************************************************)
\* SpecPool: number of fetch_json calls that may wait for a permit at once
MaxWaiting == 1
\* Spec: number of distinct place ids the upstream knows
NumIds == 3
\* Spec: number of consecutive runs of the program
MaxRuns == 2
\* the largest review count given to classify_company_size
MaxRatings == 1000
\* the last second of the clock of SpecSearch
MaxTime == 4

(***************************************************************************)
(* Program constants.                                                      *)
(***************************************************************************)
\* SEM = Semaphore(20)
SEM_PERMITS == 20
\* fetch_json(..., retries=3, ...)
retries == 3
\* fetch_json(..., backoff_factor=0.5): the factor in milliseconds
backoff_factor == 500
\* if e.status in [429, 500, 502, 503, 504]
RETRYABLE_STATUS == {429, 500, 502, 503, 504}

\* the value of "return {}"
EMPTY == "{}"
\* JSON documents a successful attempt can deliver
Payloads == {"json1", "json2"}
\* statuses a ClientResponseError of an attempt can carry: raise_for_status
\* raises for an error status, response.json for a body that is not JSON
\* (ContentTypeError, with the status of the response, 200)
ErrorStatuses == {200, 400, 403, 404, 429, 500, 501, 502, 503, 504}

\* What one attempt (session.get / raise_for_status / response.json) ends in.
Outcomes ==
    [kind : {"ok"}, status : {200}, data : Payloads]
    \cup [kind : {"http"}, status : ErrorStatuses, data : {EMPTY}]
    \cup [kind : {"timeout", "exception"}, status : {0}, data : {EMPTY}]

RECURSIVE Pow2(_)
Pow2(n) == IF n = 0 THEN 1 ELSE 2 * Pow2(n - 1)

\* wait_time = backoff_factor * (2 ** attempt)
WaitTime(attempt) == backoff_factor * Pow2(attempt)

\* IsRetryable with the except clause for asyncio.TimeoutError breaking out
\* of the loop instead of sleeping and continuing
IsRetryable_TimeoutBreaks(o) ==
    CASE o.kind = "http" -> o.status \in RETRYABLE_STATUS
      [] o.kind = "exception" -> TRUE
      [] OTHER -> FALSE

\* IsRetryable with every ClientResponseError retried, whatever its status
IsRetryable_AnyStatus(o) == o.kind \in {"http", "timeout", "exception"}

\* except-clause selection: does this outcome of an attempt lead to
\* "sleep; continue" (TRUE) or to "break" (FALSE)?  Not used for "ok".
IsRetryable(o) ==
    CASE o.kind = "http" -> o.status \in RETRYABLE_STATUS
      [] o.kind = "timeout" -> TRUE
      [] o.kind = "exception" -> TRUE
      [] OTHER -> FALSE

\* CanAcquire of a semaphore that never blocks
CanAcquire_Unbounded(permits) == TRUE

\* "async with SEM": the call may enter when a permit is free.
CanAcquire(permits) == permits > 0

\* Control state of a fetch_json call: where it is and which attempt.
\*   acquire   waiting at "async with SEM"
\*   request   attempt `attempt` is in flight (session.get ... response.json)
\*   sleep     asyncio.sleep(wait_time) after the failure of attempt `attempt`
\*   returned  the call has returned `result` and released its permit
CallAcquire == [pc |-> "acquire", attempt |-> 0, result |-> EMPTY]

\* entering the for loop after the permit is taken
EnterLoop ==
    IF 0 < retries
    THEN [pc |-> "request", attempt |-> 0, result |-> EMPTY]
    ELSE [pc |-> "returned", attempt |-> 0, result |-> EMPTY]

\* the body of the loop for attempt c.attempt, ending in outcome o
AfterAttempt(c, o) ==
    IF o.kind = "ok"
    THEN [pc |-> "returned", attempt |-> c.attempt, result |-> o.data]
    ELSE IF IsRetryable(o)
         THEN [pc |-> "sleep", attempt |-> c.attempt, result |-> EMPTY]
         ELSE [pc |-> "returned", attempt |-> c.attempt, result |-> EMPTY]

\* AfterSleep with the loop bound off by one: range(retries + 1)
AfterSleep_OneMore(c) ==
    IF c.attempt + 1 < retries + 1
    THEN [pc |-> "request", attempt |-> c.attempt + 1, result |-> EMPTY]
    ELSE [pc |-> "returned", attempt |-> c.attempt, result |-> EMPTY]

\* AfterSleep with the attempt made again: "while True" instead of the
\* bounded for loop
AfterSleep_Forever(c) == [pc |-> "request", attempt |-> c.attempt, result |-> EMPTY]

\* "continue" after the sleep: the next attempt, or the loop is exhausted
AfterSleep(c) ==
    IF c.attempt + 1 < retries
    THEN [pc |-> "request", attempt |-> c.attempt + 1, result |-> EMPTY]
    ELSE [pc |-> "returned", attempt |-> c.attempt, result |-> EMPTY]


(***************************************************************************)
(* Configuration of the pipeline, reduced: two of the three cities, which  *)
(* share the neighbourhood "Jardim Paulista" as in the source, and two of  *)
(* the four keywords.                                                      *)
(***************************************************************************)
CIDADES_E_BAIRROS ==
    << [city |-> "Sao Paulo", bairros |-> <<"Jardim Paulista", "Pinheiros">>],
       [city |-> "Campinas",  bairros |-> <<"Jardim Paulista">>] >>

KEYWORDS == <<"farmacia", "drogaria">>

Cities == {CIDADES_E_BAIRROS[i].city : i \in DOMAIN CIDADES_E_BAIRROS}

Ids == 1 .. NumIds

RECURSIVE SelectIds(_)
\* the ids of a result page that the upstream knows
SelectIds(s) ==
    IF s = <<>> THEN <<>>
    ELSE IF Head(s) \in Ids THEN <<Head(s)>> \o SelectIds(Tail(s))
         ELSE SelectIds(Tail(s))

(***************************************************************************)
(* The upstream places API (the environment).  The query is               *)
(* "<keyword> em <bairro>": what a page lists depends on the keyword and   *)
(* the neighbourhood only, never on the city.  Pages overlap, so ids       *)
(* repeat across pages, keywords and neighbourhoods.                       *)
(***************************************************************************)
BairroShift(bairro) == IF bairro = "Jardim Paulista" THEN 0 ELSE 1

\* results of the first page of the text search
Page1(bairro, k) == SelectIds(<<k + BairroShift(bairro), k + BairroShift(bairro) + 1>>)
\* results of the page behind next_page_token
Page2(bairro, k) == SelectIds(<<k + BairroShift(bairro) + 1, k + BairroShift(bairro) + 2>>)

\* A JSON document of the search endpoint; nonempty = FALSE is {} .
EmptyDoc == [nonempty |-> FALSE, status |-> "", results |-> <<>>, next_page_token |-> FALSE]

SearchResponses(page) ==
    {EmptyDoc}
    \cup [nonempty : {TRUE}, status : {"OK", "INVALID_REQUEST"},
          results : {page}, next_page_token : BOOLEAN]
    \cup [nonempty : {TRUE}, status : {"ZERO_RESULTS"},
          results : {<<>>}, next_page_token : {FALSE}]

\* Values a JSON field holding a coordinate can take, and NaN.
Num(n) == [t |-> "num", v |-> n]
None == [t |-> "none", v |-> 0]
NaN == [t |-> "nan", v |-> 0]

\* What the details endpoint knows of a place.  Places 1 and 2 are two
\* pharmacies with their coordinates; from place 3 on, a place is a second
\* listing of the pharmacy two ids before it (same name, same address), and
\* place 3 is listed without geometry.
NameOf(pid) == IF pid > 2 THEN pid - 2 ELSE pid
AddressOf(pid) == IF pid > 2 THEN pid - 2 ELSE pid
CoordOf(pid) == IF pid = 3 THEN None ELSE Num(pid)

\* the "result" object of the details endpoint
DetailResults(pid) ==
    { [name |-> NameOf(pid), formatted_address |-> AddressOf(pid),
       lat |-> CoordOf(pid), lng |-> CoordOf(pid)] }

NoResult == [name |-> 0, formatted_address |-> 0, lat |-> None, lng |-> None]

\* A JSON document of the details endpoint: {} , a document without the
\* "result" field, or a document with it.
DetailResponses(pid) ==
    [nonempty : {FALSE}, has_result : {FALSE}, result : {NoResult}]
    \cup [nonempty : {TRUE}, has_result : {FALSE}, result : {NoResult}]
    \cup [nonempty : {TRUE}, has_result : {TRUE}, result : DetailResults(pid)]

\* A JSON document of the custom search endpoint: {} , no "items", or items.
SocialResponses(pid) ==
    [nonempty : {FALSE}, has_items : {FALSE}, items : {<<>>}]
    \cup [nonempty : {TRUE}, has_items : {FALSE}, items : {<<>>}]
    \cup [nonempty : {TRUE}, has_items : {TRUE}, items : {<<pid>>}]

(***************************************************************************)
(* Pure parts of the pipeline.                                             *)
(***************************************************************************)
Range(s) == {s[i] : i \in DOMAIN s}

\* UnseenIds without the test "pid not in processed_place_ids"
RECURSIVE UnseenIds_IgnoresProcessed(_, _, _)
UnseenIds_IgnoresProcessed(results, processed, acc) ==
    IF results = <<>> THEN acc
    ELSE LET pid == Head(results) IN
         UnseenIds_IgnoresProcessed(Tail(results), processed,
                   IF pid \in Range(acc) THEN acc ELSE Append(acc, pid))

\* UnseenIds with place_ids a list instead of a set
RECURSIVE UnseenIds_List(_, _, _)
UnseenIds_List(results, processed, acc) ==
    IF results = <<>> THEN acc
    ELSE LET pid == Head(results) IN
         UnseenIds_List(Tail(results), processed,
                   IF pid \in processed THEN acc ELSE Append(acc, pid))

\* lines 279-283: place_ids = set(); add every pid not yet processed.  The
\* set is kept as the sequence of its elements in order of insertion.
RECURSIVE UnseenIds(_, _, _)
UnseenIds(results, processed, acc) ==
    IF results = <<>> THEN acc
    ELSE LET pid == Head(results) IN
         UnseenIds(Tail(results), processed,
                   IF pid \in processed \/ pid \in Range(acc)
                   THEN acc ELSE Append(acc, pid))

\* get_company_details: data['result'], or {} when there is no 'result'
GetCompanyDetails(data) ==
    IF data.has_result THEN [found |-> TRUE, result |-> data.result]
    ELSE [found |-> FALSE, result |-> NoResult]

\* get_social_media_links after fetch_json: the links of the items
SocialLinks(data) ==
    IF ~data.nonempty \/ ~data.has_items THEN <<>> ELSE data.items

\* process_pharmacy, lines 238-254: the record built from the details
PharmacyData(pid, details, social_links) ==
    [PlaceID |-> pid, Name |-> details.name, Address |-> details.formatted_address,
     Latitude |-> details.lat, Longitude |-> details.lng,
     SocialLinks |-> social_links]

\* what a task of the gather returns: None, or a record
NoCompany == [some |-> FALSE,
              data |-> PharmacyData(0, NoResult, <<>>)]
Company(rec) == [some |-> TRUE, data |-> rec]

\* pd.to_numeric(errors='coerce') on one value
ToNumeric(x) == IF x.t = "num" THEN x ELSE NaN

\* DataFrame.drop_duplicates(subset=['Name', 'Address']): keep the first
RECURSIVE DropDuplicates(_, _)
DropDuplicates(rows, kept) ==
    IF rows = <<>> THEN kept
    ELSE LET r == Head(rows) IN
         DropDuplicates(Tail(rows),
             IF \E i \in DOMAIN kept :
                   kept[i].Name = r.Name /\ kept[i].Address = r.Address
             THEN kept ELSE Append(kept, r))

\* dropna(subset=['Latitude', 'Longitude']) after the coercion
RECURSIVE DropNa(_)
DropNa(rows) ==
    IF rows = <<>> THEN <<>>
    ELSE LET r == [Head(rows) EXCEPT !.Latitude = ToNumeric(@),
                                     !.Longitude = ToNumeric(@)] IN
         IF r.Latitude = NaN \/ r.Longitude = NaN
         THEN DropNa(Tail(rows)) ELSE <<r>> \o DropNa(Tail(rows))

\* main, lines 319-350: the rows written for one city
OutputRecords(farmacias) == DropNa(DropDuplicates(farmacias, <<>>))

\* f'restaurantes_{normalize_name(city)}.json'.replace(" ", "_")
FileName(city) ==
    IF city = "Sao Paulo" THEN "restaurantes_Sao_Paulo.json"
    ELSE "restaurantes_Campinas.json"

FileNames == {FileName(c) : c \in Cities}

(***************************************************************************)
(* classify_company_size, of the collector and of the dashboard.  The      *)
(* argument is None (a JSON null), NaN (an absent value in a numeric       *)
(* column) or a number.  A comparison of NaN with a number is false.       *)
(***************************************************************************)
\* x == n and x >= n in Python, for x a number or NaN
PyEq(x, n) == x.t = "num" /\ x.v = n
PyGe(x, n) == x.t = "num" /\ x.v >= n

\* classify_company_size with "> 100" for ">= 100"
classify_company_size_Gt(x) ==
    IF x = None \/ PyEq(x, 0) THEN "Pequena"
    ELSE IF x.t = "num" /\ x.v > 100 THEN "Grande"
    ELSE IF PyGe(x, 20) THEN "Média"
    ELSE "Pequena"

\* desenvolvimento.py: "user_ratings_total is None or user_ratings_total == 0"
classify_company_size(x) ==
    IF x = None \/ PyEq(x, 0) THEN "Pequena"
    ELSE IF PyGe(x, 100) THEN "Grande"
    ELSE IF PyGe(x, 20) THEN "Média"
    ELSE "Pequena"

\* pd.isnull on a scalar
isnull(x) == x = None \/ x = NaN

\* tst.py: "pd.isnull(user_ratings_total) or user_ratings_total == 0"
tst_classify_company_size(x) ==
    IF isnull(x) \/ PyEq(x, 0) THEN "Pequena"
    ELSE IF PyGe(x, 100) THEN "Grande"
    ELSE IF PyGe(x, 20) THEN "Média"
    ELSE "Pequena"

\* the review counts given to the classifiers
RatingInputs == {None, NaN} \cup {Num(n) : n \in 0 .. MaxRatings}

\* the orders in which a set of n elements can be iterated
Perms(n) == {f \in [1 .. n -> 1 .. n] : \A i, j \in 1 .. n : f[i] = f[j] => i = j}

VARIABLES
    sem,      \* free permits of SEM
    call,     \* SpecCall: the call, with its history
    pool,     \* SpecPool: number of calls in each control state
    \* ---- Spec: the environment and the files
    api_key,              \* GOOGLE_API_KEY is set
    cse_id,               \* CUSTOM_SEARCH_ENGINE_ID is set
    state_file,           \* processed_place_ids.json
    out_files,            \* the restaurantes_<city>.json files
    \* ---- Spec: the process
    run,                  \* which run of the program this is
    pc,                   \* where main / collect_data is
    ci, bi, ki,           \* city, bairro and keyword of the loops
    all_results_city,     \* place ids of the results accumulated for the city
    place_ids,            \* the unseen ids of the city
    detail_tasks,         \* the process_pharmacy tasks of the gather
    processed_place_ids,  \* ProcessedIdSet
    all_companies,        \* city -> records enriched in this run
    lock,                 \* the Lock of collect_data is held
    to_write,             \* main: cities whose file is still to be written
    loaded_ids,           \* what load_processed_place_ids returned
    \* ---- SpecClassify: classify_company_size
    user_ratings_total,   \* the argument
    company_size,         \* what the collector's and the dashboard's function return
    \* ---- SpecSearch: one call of search_pharmacies_by_bairro
    search                \* its locals, the clock, the requests sent and responses received

pvars == <<api_key, cse_id, state_file, out_files, run, pc, ci, bi, ki,
           all_results_city, place_ids, detail_tasks, processed_place_ids,
           all_companies, lock, to_write, loaded_ids>>

cvars == <<user_ratings_total, company_size, search>>

vars == <<sem, call, pool, pvars, cvars>>

NoFile == [exists |-> FALSE, content |-> <<>>]
\* classify_company_size has not been called
NoSize == [called |-> FALSE, desenvolvimento |-> "", tst |-> ""]
NoClassify == user_ratings_total = None /\ company_size = NoSize
\* search_pharmacies_by_bairro at its first line, for bairro
\*   pc               keyword (top of the loop body), wait (line 138), sleep
\*                    (line 148), page (line 149), page_wait (line 153), returned
\*   now, token_at    the clock in seconds; when the token was received
\*   sent, received   the requests sent and the documents received so far
NewSearch(bairro) ==
    [pc |-> "keyword", bairro |-> bairro, k |-> 1, all_results |-> <<>>,
     next_page_token |-> <<>>, now |-> 0, token_at |-> 0,
     sent |-> <<>>, received |-> <<>>]
NoSearch == NewSearch("")
NoStateFile == [exists |-> FALSE, ids |-> {}]

\* the process before the interpreter has run a line of it
Fresh ==
    /\ pc = "startup"
    /\ ci = 1 /\ bi = 1 /\ ki = 1
    /\ all_results_city = <<>>
    /\ place_ids = <<>>
    /\ detail_tasks = <<>>
    /\ processed_place_ids = {}
    /\ all_companies = <<>>
    /\ lock = FALSE
    /\ to_write = <<>>
    /\ loaded_ids = {}

\* SpecCall and SpecPool do not run the pipeline
NoPipeline ==
    /\ api_key = TRUE /\ cse_id = TRUE
    /\ state_file = NoStateFile
    /\ out_files = [f \in FileNames |-> NoFile]
    /\ run = 1
    /\ Fresh

(***************************************************************************)
(* SpecCall: one fetch_json call.                                          *)
(***************************************************************************)
NoCall == [st |-> CallAcquire, hist |-> <<>>, waits |-> <<>>]

InitCall ==
    /\ sem = SEM_PERMITS
    /\ call = NoCall
    /\ pool = <<>>
    /\ NoPipeline
    /\ NoClassify
    /\ search = NoSearch

CallEnter ==
    /\ call.st.pc = "acquire"
    /\ CanAcquire(sem)
    /\ sem' = sem - 1
    /\ call' = [call EXCEPT !.st = EnterLoop]
    /\ UNCHANGED <<pool, pvars, cvars>>

\* Release with the permit given back on "return data" only (acquire and
\* release written by hand, the release missing before "return {}")
Release_OnSuccessOnly(before, after) ==
    IF before.pc # "returned" /\ after.pc = "returned" /\ after.result # EMPTY
    THEN 1 ELSE 0

\* the permit is given back when the call leaves "async with SEM"
Release(before, after) ==
    IF before.pc # "returned" /\ after.pc = "returned" THEN 1 ELSE 0

CallAttempt ==
    /\ call.st.pc = "request"
    /\ \E o \in Outcomes :
         LET nxt == AfterAttempt(call.st, o) IN
         /\ call' = [st |-> nxt,
                     hist |-> Append(call.hist, o),
                     waits |-> IF nxt.pc = "sleep"
                               THEN Append(call.waits, WaitTime(call.st.attempt))
                               ELSE call.waits]
         /\ sem' = sem + Release(call.st, nxt)
    /\ UNCHANGED <<pool, pvars, cvars>>

CallWake ==
    /\ call.st.pc = "sleep"
    /\ LET nxt == AfterSleep(call.st) IN
         /\ call' = [call EXCEPT !.st = nxt]
         /\ sem' = sem + Release(call.st, nxt)
    /\ UNCHANGED <<pool, pvars, cvars>>

NextCall == CallEnter \/ CallAttempt \/ CallWake

SpecCall == InitCall /\ [][NextCall]_vars

(***************************************************************************)
(* SpecPool: the concurrent callers of fetch_json (the search stage and    *)
(* every process_pharmacy task of a gather), counted by control state:     *)
(* the calls are interchangeable.  A batch has one task per unseen id, so  *)
(* the number of calls is not bounded by the program; calls arrive while   *)
(* at most MaxWaiting of them wait for a permit, and a call that has       *)
(* returned is no longer counted.                                          *)
(***************************************************************************)
PoolStates ==
    {<<"acquire", 0>>} \cup ({"request", "sleep"} \X (0 .. retries - 1))

PoolKey(c) == IF c.pc = "acquire" THEN <<c.pc, 0>> ELSE <<c.pc, c.attempt>>

\* one call leaves control state c and reaches control state nxt
Move(p, c, nxt) ==
    LET left == IF c.pc = "new" THEN p ELSE [p EXCEPT ![PoolKey(c)] = @ - 1]
    IN IF nxt.pc = "returned" THEN left ELSE [left EXCEPT ![PoolKey(nxt)] = @ + 1]

InitPool ==
    /\ sem = SEM_PERMITS
    /\ call = NoCall
    /\ pool = [k \in PoolStates |-> 0]
    /\ NoPipeline
    /\ NoClassify
    /\ search = NoSearch

\* some task calls fetch_json
PoolCall ==
    /\ pool[<<"acquire", 0>>] < MaxWaiting
    /\ pool' = Move(pool, [pc |-> "new"], CallAcquire)
    /\ UNCHANGED <<sem, call, cvars, pvars>>

PoolEnter ==
    /\ pool[<<"acquire", 0>>] > 0
    /\ CanAcquire(sem)
    /\ sem' = sem - 1
    /\ pool' = Move(pool, CallAcquire, EnterLoop)
    /\ UNCHANGED <<call, cvars, pvars>>

PoolAttempt ==
    /\ \E a \in 0 .. retries - 1 :
         LET c == [pc |-> "request", attempt |-> a, result |-> EMPTY] IN
         /\ pool[<<"request", a>>] > 0
         /\ \E nxt \in {AfterAttempt(c, o) : o \in Outcomes} :
              /\ pool' = Move(pool, c, nxt)
              /\ sem' = sem + Release(c, nxt)
    /\ UNCHANGED <<call, cvars, pvars>>

PoolWake ==
    /\ \E a \in 0 .. retries - 1 :
         LET c == [pc |-> "sleep", attempt |-> a, result |-> EMPTY]
             nxt == AfterSleep(c) IN
         /\ pool[<<"sleep", a>>] > 0
         /\ pool' = Move(pool, c, nxt)
         /\ sem' = sem + Release(c, nxt)
    /\ UNCHANGED <<call, cvars, pvars>>

NextPool == PoolCall \/ PoolEnter \/ PoolAttempt \/ PoolWake

SpecPool == InitPool /\ [][NextPool]_vars

\* calls in control state <<kind, a>> for the attempts 0 .. a
RECURSIVE PoolCount(_, _)
PoolCount(kind, a) ==
    IF a < 0 THEN 0 ELSE pool[<<kind, a>>] + PoolCount(kind, a - 1)

\* requests issued by fetch_json and not yet completed
PoolInFlight == PoolCount("request", retries - 1)

(***************************************************************************)
(* Properties of fetch_json.                                               *)
(***************************************************************************)
\* the failures the specification calls retryable
RetryableFailure(o) ==
    \/ o.kind = "http" /\ o.status \in {429, 500, 502, 503, 504}
    \/ o.kind = "timeout"
    \/ o.kind = "exception"

\* a ClientResponseError with a status outside the retryable ones
NonRetryableError(o) ==
    o.kind = "http" /\ o.status \notin {429, 500, 502, 503, 504}

AllRetryableFailures(h) == \A j \in DOMAIN h : RetryableFailure(h[j])

\* C1: at every moment the number of requests in flight, over all the
\* concurrent calls of fetch_json, is at most 20.
C1_InFlightBounded == PoolInFlight <= 20

\* 20 requests are in flight and a further call waits for a permit
C1_Witness == PoolInFlight = 20 /\ pool[<<"acquire", 0>>] > 0

\* C2: after k < 3 retryable failures the call has not given up (it sleeps
\* or makes attempt k+1), and when attempt k+1 succeeds the call returns
\* the JSON payload of that attempt.
C2_RetryCorrect ==
    LET n == Len(call.hist) IN
    /\ (n < 3 /\ AllRetryableFailures(call.hist)) => call.st.pc # "returned"
    /\ (n >= 1 /\ n <= 3 /\ call.hist[n].kind = "ok"
           /\ AllRetryableFailures(SubSeq(call.hist, 1, n - 1)))
         => (call.st.pc = "returned" /\ call.st.result = call.hist[n].data)

\* the third attempt succeeds after a timeout and a 503
C2_Witness ==
    /\ Len(call.hist) = 3
    /\ call.hist[1].kind = "timeout"
    /\ call.hist[2].kind = "http" /\ call.hist[2].status = 503
    /\ call.hist[3].kind = "ok"
    /\ call.st.pc = "returned" /\ call.st.result = call.hist[3].data

\* C3: a call never makes more than 3 attempts; after 3 retryable failures
\* it makes no request any more: it is in its last sleep, which it can
\* leave, or it has returned, and then the result is {} .
C3_ExhaustedReturnsEmpty ==
    /\ Len(call.hist) <= 3
    /\ (Len(call.hist) = 3 /\ AllRetryableFailures(call.hist))
         => /\ call.st.pc \in {"sleep", "returned"}
            /\ call.st.pc = "sleep" => ENABLED CallWake
            /\ call.st.pc = "returned" => call.st.result = EMPTY

\* three retryable failures in a row, and the call has returned {}
C3_Witness ==
    /\ Len(call.hist) = 3
    /\ AllRetryableFailures(call.hist)
    /\ call.st.pc = "returned" /\ call.st.result = EMPTY

\* C4: an attempt that fails with a non-retryable HTTP error is the last
\* attempt of the call, no backoff wait follows it, and the call has
\* returned {} .
C4_NonRetryableAborts ==
    \A n \in DOMAIN call.hist :
        NonRetryableError(call.hist[n])
          => /\ n = Len(call.hist)
             /\ Len(call.waits) = n - 1
             /\ call.st.pc = "returned"
             /\ call.st.result = EMPTY

\* a 404 on the second attempt, after one backoff wait
C4_Witness ==
    /\ Len(call.hist) = 2
    /\ call.hist[1].kind = "http" /\ call.hist[1].status = 500
    /\ call.hist[2].kind = "http" /\ call.hist[2].status = 404
    /\ Len(call.waits) = 1
    /\ call.st.pc = "returned"

(***************************************************************************)
(* Spec: collect_data and main, over MaxRuns runs of the program that      *)
(* share the state file and the output files.  A fetch_json call of the    *)
(* pipeline takes a permit when it is made and gives it back when it       *)
(* returns; what it returns is what SpecCall shows a call can return: the  *)
(* JSON document of a successful attempt, or {} .                          *)
(***************************************************************************)
Init ==
    /\ sem = SEM_PERMITS
    /\ call = NoCall
    /\ pool = <<>>
    /\ api_key \in BOOLEAN
    /\ cse_id \in BOOLEAN
    /\ state_file = NoStateFile
    /\ out_files = [f \in FileNames |-> NoFile]
    /\ run = 1
    /\ Fresh
    /\ NoClassify
    /\ search = NoSearch

City == CIDADES_E_BAIRROS[ci].city
Bairro == CIDADES_E_BAIRROS[ci].bairros[bi]

\* Start without "if not GOOGLE_API_KEY: raise ValueError"
Start_NoKeyCheck ==
    /\ pc = "startup"
    /\ pc' = "search"
    /\ processed_place_ids' = (IF state_file.exists THEN state_file.ids ELSE {})
    /\ loaded_ids' = (IF state_file.exists THEN state_file.ids ELSE {})
    /\ UNCHANGED <<sem, call, cvars, pool, api_key, cse_id, state_file, out_files, run,
                   ci, bi, ki, all_results_city, place_ids, detail_tasks,
                   all_companies, lock, to_write>>

\* lines 27-33 and 266-269: the startup check, then collect_data loads the
\* processed ids (absent file => empty set) and enters the city loop
Start ==
    /\ pc = "startup"
    /\ IF ~api_key
       THEN /\ pc' = "aborted"
            /\ UNCHANGED <<processed_place_ids, loaded_ids>>
       ELSE /\ pc' = "search"
            /\ processed_place_ids' = (IF state_file.exists THEN state_file.ids ELSE {})
            /\ loaded_ids' = (IF state_file.exists THEN state_file.ids ELSE {})
    /\ UNCHANGED <<sem, call, cvars, pool, api_key, cse_id, state_file, out_files, run,
                   ci, bi, ki, all_results_city, place_ids, detail_tasks,
                   all_companies, lock, to_write>>

\* line 138: fetch_json for "<keyword> em <bairro>"
SearchRequest ==
    /\ pc = "search"
    /\ CanAcquire(sem)
    /\ sem' = sem - 1
    /\ pc' = "search_wait"
    /\ UNCHANGED <<call, cvars, pool, api_key, cse_id, state_file, out_files, run,
                   ci, bi, ki, all_results_city, place_ids, detail_tasks,
                   processed_place_ids, all_companies, lock, to_write, loaded_ids>>

\* the end of one iteration of "for keyword in KEYWORDS", and with the last
\* keyword of "for bairro in bairros"
AfterKeyword ==
    IF ki < Len(KEYWORDS)
    THEN /\ ki' = ki + 1 /\ bi' = bi /\ pc' = "search"
    ELSE IF bi < Len(CIDADES_E_BAIRROS[ci].bairros)
         THEN /\ ki' = 1 /\ bi' = bi + 1 /\ pc' = "search"
         ELSE /\ ki' = 1 /\ bi' = 1 /\ pc' = "dedup"

\* lines 138-148: the first page arrives
SearchResponse ==
    /\ pc = "search_wait"
    /\ sem' = sem + 1
    /\ \E data \in SearchResponses(Page1(Bairro, ki)) :
         IF ~data.nonempty
         THEN /\ AfterKeyword
              /\ UNCHANGED all_results_city
         ELSE /\ all_results_city' = all_results_city \o data.results
              /\ IF data.next_page_token
                 THEN /\ pc' = "page_sleep" /\ UNCHANGED <<bi, ki>>
                 ELSE AfterKeyword
    /\ UNCHANGED <<call, cvars, pool, api_key, cse_id, state_file, out_files, run, ci,
                   place_ids, detail_tasks, processed_place_ids, all_companies,
                   lock, to_write, loaded_ids>>

\* line 148: asyncio.sleep(2) is over
PageDelay ==
    /\ pc = "page_sleep"
    /\ pc' = "page"
    /\ UNCHANGED <<sem, call, cvars, pool, api_key, cse_id, state_file, out_files, run,
                   ci, bi, ki, all_results_city, place_ids, detail_tasks,
                   processed_place_ids, all_companies, lock, to_write, loaded_ids>>

\* line 153: fetch_json with the page token
PageRequest ==
    /\ pc = "page"
    /\ CanAcquire(sem)
    /\ sem' = sem - 1
    /\ pc' = "page_wait"
    /\ UNCHANGED <<call, cvars, pool, api_key, cse_id, state_file, out_files, run,
                   ci, bi, ki, all_results_city, place_ids, detail_tasks,
                   processed_place_ids, all_companies, lock, to_write, loaded_ids>>

\* lines 153-157: the second page arrives
PageResponse ==
    /\ pc = "page_wait"
    /\ sem' = sem + 1
    /\ \E data_next \in SearchResponses(Page2(Bairro, ki)) :
         /\ all_results_city' =
               (IF data_next.nonempty /\ data_next.status = "OK"
                THEN all_results_city \o data_next.results
                ELSE all_results_city)
         /\ AfterKeyword
    /\ UNCHANGED <<call, cvars, pool, api_key, cse_id, state_file, out_files, run, ci,
                   place_ids, detail_tasks, processed_place_ids, all_companies,
                   lock, to_write, loaded_ids>>

\* the end of one iteration of "for city, bairros in ...": the next city,
\* or collect_data returns and main (lines 311-318) looks at all_companies
AfterCity ==
    IF ci < Len(CIDADES_E_BAIRROS)
    THEN /\ ci' = ci + 1 /\ pc' = "search" /\ all_results_city' = <<>>
         /\ UNCHANGED to_write
    ELSE /\ ci' = ci /\ UNCHANGED all_results_city
         /\ to_write' = SelectSeq([i \in DOMAIN CIDADES_E_BAIRROS |-> CIDADES_E_BAIRROS[i].city],
                                  LAMBDA c : c \in DOMAIN all_companies')
         /\ pc' = IF to_write' = <<>> THEN "done" ELSE "main"

\* process_pharmacy(session, place_id, city), as handed to gather.
\* has_result: the details document had a 'result' field.
NewTask(pid, city) ==
    [pid |-> pid, city |-> city, pc |-> "start", has_result |-> FALSE,
     result |-> NoCompany]

\* Dedup without "if not place_ids: continue"
Dedup_NoSkip ==
    /\ pc = "dedup"
    /\ place_ids' = UnseenIds(all_results_city, processed_place_ids, <<>>)
    /\ detail_tasks' = [i \in DOMAIN place_ids' |-> NewTask(place_ids'[i], City)]
    /\ pc' = "gather"
    /\ UNCHANGED <<ci, all_results_city, all_companies, to_write>>
    /\ UNCHANGED <<sem, call, cvars, pool, api_key, cse_id, state_file, out_files, run,
                   bi, ki, processed_place_ids, lock, loaded_ids>>

\* lines 279-293: the unseen ids; none => continue, else one task per id
Dedup ==
    /\ pc = "dedup"
    /\ place_ids' = UnseenIds(all_results_city, processed_place_ids, <<>>)
    /\ IF place_ids' = <<>>
       THEN /\ all_companies' = all_companies
            /\ AfterCity
            /\ UNCHANGED detail_tasks
       ELSE /\ detail_tasks' = [i \in DOMAIN place_ids' |-> NewTask(place_ids'[i], City)]
            /\ pc' = "gather"
            /\ UNCHANGED <<ci, all_results_city, all_companies, to_write>>
    /\ UNCHANGED <<sem, call, cvars, pool, api_key, cse_id, state_file, out_files, run,
                   bi, ki, processed_place_ids, lock, loaded_ids>>

\* process_pharmacy starts: get_company_details calls fetch_json (line 166)
TaskStart(i) ==
    /\ pc = "gather"
    /\ detail_tasks[i].pc = "start"
    /\ CanAcquire(sem)
    /\ sem' = sem - 1
    /\ detail_tasks' = [detail_tasks EXCEPT ![i].pc = "details"]
    /\ UNCHANGED <<call, cvars, pool, api_key, cse_id, state_file, out_files, run, pc,
                   ci, bi, ki, all_results_city, place_ids, processed_place_ids,
                   all_companies, lock, to_write, loaded_ids>>

\* AfterDetails without "if not details: return None"
AfterDetails_NoCheck(t, data, cse) ==
    [t EXCEPT !.pc = IF cse THEN "social" ELSE "done",
              !.has_result = data.has_result,
              !.result = Company(PharmacyData(t.pid, GetCompanyDetails(data).result, <<>>))]

\* lines 166-173 and 223-230: the details arrive.  No details: the task
\* returns None.  Otherwise the record is built at once when no search engine
\* is configured, and get_social_media_links calls fetch_json when one is.
AfterDetails(t, data, cse) ==
    LET details == GetCompanyDetails(data) IN
    IF ~details.found
    THEN [t EXCEPT !.pc = "done", !.has_result = data.has_result,
                   !.result = NoCompany]
    ELSE [t EXCEPT !.pc = IF cse THEN "social" ELSE "done",
                   !.has_result = data.has_result,
                   !.result = Company(PharmacyData(t.pid, details.result, <<>>))]

\* The permit of the details call is given back when it returns; the call
\* of get_social_media_links takes it again at once: no other code runs in
\* between and no call waits, a batch being smaller than SEM.
DetailsResponse(i) ==
    /\ pc = "gather"
    /\ detail_tasks[i].pc = "details"
    /\ \E data \in DetailResponses(detail_tasks[i].pid) :
         LET t == AfterDetails(detail_tasks[i], data, cse_id) IN
         /\ detail_tasks' = [detail_tasks EXCEPT ![i] = t]
         /\ sem' = IF t.pc = "done" THEN sem + 1 ELSE sem
    /\ UNCHANGED <<call, cvars, pool, api_key, cse_id, state_file, out_files, run, pc,
                   ci, bi, ki, all_results_city, place_ids, processed_place_ids,
                   all_companies, lock, to_write, loaded_ids>>

\* lines 188-194 and 230-254: the web search returns, the record is built
SocialResponse(i) ==
    /\ pc = "gather"
    /\ detail_tasks[i].pc = "social"
    /\ sem' = sem + 1
    /\ \E data \in SocialResponses(detail_tasks[i].pid) :
         detail_tasks' = [detail_tasks EXCEPT
             ![i].pc = "done",
             ![i].result = Company([detail_tasks[i].result.data EXCEPT
                                       !.SocialLinks = SocialLinks(data)])]
    /\ UNCHANGED <<call, cvars, pool, api_key, cse_id, state_file, out_files, run, pc,
                   ci, bi, ki, all_results_city, place_ids, processed_place_ids,
                   all_companies, lock, to_write, loaded_ids>>

\* "for company in company_details": the records, in the order given
RECURSIVE Companies(_)
Companies(details) ==
    IF details = <<>> THEN <<>>
    ELSE IF Head(details).some
         THEN <<Head(details).data>> \o Companies(Tail(details))
         ELSE Companies(Tail(details))

\* AddProcessed with the set assigned instead of added to
AddProcessed_Replace(processed, companies) ==
    {companies[k].PlaceID : k \in DOMAIN companies}

\* AddProcessed with the add after the loop: only the last record counts
AddProcessed_Last(processed, companies) ==
    IF companies = <<>> THEN processed
    ELSE processed \cup {companies[Len(companies)].PlaceID}

\* AddProcessed without line 301
AddProcessed_None(processed, companies) == processed

\* lines 296-301 on the processed ids
AddProcessed(processed, companies) ==
    processed \cup {companies[k].PlaceID : k \in DOMAIN companies}

\* lines 298-300 on all_companies
AddCompanies(all, city, companies) ==
    IF companies = <<>> THEN all
    ELSE [c \in DOMAIN all \cup {city} |->
            IF c = city
            THEN (IF c \in DOMAIN all THEN all[c] ELSE <<>>) \o companies
            ELSE all[c]]

\* Aggregate taking the results as they complete (asyncio.as_completed /
\* wait(FIRST_COMPLETED)) instead of gathering the whole batch
Aggregate_NoWait ==
    /\ pc = "gather"
    /\ \E i \in DOMAIN detail_tasks : detail_tasks[i].pc = "done"
    /\ \E order \in Perms(Len(detail_tasks)) :
         LET company_details == [k \in DOMAIN detail_tasks |->
                                   IF detail_tasks[order[k]].pc = "done"
                                   THEN detail_tasks[order[k]].result ELSE NoCompany]
             companies == Companies(company_details) IN
         /\ all_companies' = AddCompanies(all_companies, City, companies)
         /\ processed_place_ids' = AddProcessed(processed_place_ids, companies)
    /\ pc' = "lock"
    /\ UNCHANGED <<sem, call, cvars, pool, api_key, cse_id, state_file, out_files, run,
                   ci, bi, ki, all_results_city, place_ids, detail_tasks,
                   lock, to_write, loaded_ids>>

\* Aggregate with lines 303-304 after the city loop instead of inside it
Aggregate_SaveAfterLoop ==
    /\ pc = "gather"
    /\ \A i \in DOMAIN detail_tasks : detail_tasks[i].pc = "done"
    /\ \E order \in Perms(Len(detail_tasks)) :
         LET company_details == [k \in DOMAIN detail_tasks |-> detail_tasks[order[k]].result]
             companies == Companies(company_details) IN
         /\ all_companies' = AddCompanies(all_companies, City, companies)
         /\ processed_place_ids' = AddProcessed(processed_place_ids, companies)
    /\ IF ci < Len(CIDADES_E_BAIRROS)
       THEN AfterCity
       ELSE /\ pc' = "lock" /\ UNCHANGED <<ci, all_results_city, to_write>>
    /\ UNCHANGED <<sem, call, cvars, pool, api_key, cse_id, state_file, out_files, run,
                   bi, ki, place_ids, detail_tasks, lock, loaded_ids>>

\* lines 295-301: gather returns when every task is done; its results are
\* in the order of the tasks, which is the iteration order of the set
\* place_ids: any order.
Aggregate ==
    /\ pc = "gather"
    /\ \A i \in DOMAIN detail_tasks : detail_tasks[i].pc = "done"
    /\ \E order \in Perms(Len(detail_tasks)) :
         LET company_details == [k \in DOMAIN detail_tasks |-> detail_tasks[order[k]].result]
             companies == Companies(company_details) IN
         /\ all_companies' = AddCompanies(all_companies, City, companies)
         /\ processed_place_ids' = AddProcessed(processed_place_ids, companies)
    /\ pc' = "lock"
    /\ UNCHANGED <<sem, call, cvars, pool, api_key, cse_id, state_file, out_files, run,
                   ci, bi, ki, all_results_city, place_ids, detail_tasks,
                   lock, to_write, loaded_ids>>

\* line 303: async with lock
LockAcquire ==
    /\ pc = "lock"
    /\ ~lock
    /\ lock' = TRUE
    /\ pc' = "save"
    /\ UNCHANGED <<sem, call, cvars, pool, api_key, cse_id, state_file, out_files, run,
                   ci, bi, ki, all_results_city, place_ids, detail_tasks,
                   processed_place_ids, all_companies, to_write, loaded_ids>>

\* SavedFile writing only the ids that this run added
SavedFile_OnlyNew(place_ids_arg) == [exists |-> TRUE, ids |-> place_ids_arg \ loaded_ids]

\* save_processed_place_ids, lines 262-264: the file is rewritten
SavedFile(place_ids_arg) == [exists |-> TRUE, ids |-> place_ids_arg]

\* line 304, and the lock is released on leaving the block
Save ==
    /\ pc = "save"
    /\ state_file' = SavedFile(processed_place_ids)
    /\ lock' = FALSE
    /\ all_companies' = all_companies
    /\ AfterCity
    /\ UNCHANGED <<sem, call, cvars, pool, api_key, cse_id, out_files, run, bi, ki,
                   place_ids, detail_tasks, processed_place_ids, loaded_ids>>

\* WrittenFile with the file opened for appending
WrittenFile_Append(old, rows) == [exists |-> TRUE, content |-> old.content \o rows]

\* lines 350-353: open(filename, 'w') and write the rows
WrittenFile(old, rows) == [exists |-> TRUE, content |-> rows]

\* lines 318-355: one iteration of "for city, farmacias in all_companies.items()"
WriteCity ==
    /\ pc = "main"
    /\ to_write # <<>>
    /\ LET city == Head(to_write) IN
         out_files' = [out_files EXCEPT ![FileName(city)] =
                          WrittenFile(@, OutputRecords(all_companies[city]))]
    /\ to_write' = Tail(to_write)
    /\ pc' = IF to_write' = <<>> THEN "done" ELSE "main"
    /\ UNCHANGED <<sem, call, cvars, pool, api_key, cse_id, state_file, run, ci, bi, ki,
                   all_results_city, place_ids, detail_tasks, processed_place_ids,
                   all_companies, lock, loaded_ids>>

\* the program is started again: a new process, the same files; the API
\* key may have been set or removed in the environment meanwhile
NextRun ==
    /\ pc = "done"
    /\ run < MaxRuns
    /\ run' = run + 1
    /\ sem' = SEM_PERMITS
    /\ pc' = "startup"
    /\ ci' = 1 /\ bi' = 1 /\ ki' = 1
    /\ all_results_city' = <<>>
    /\ place_ids' = <<>>
    /\ detail_tasks' = <<>>
    /\ processed_place_ids' = {}
    /\ all_companies' = <<>>
    /\ lock' = FALSE
    /\ to_write' = <<>>
    /\ loaded_ids' = {}
    /\ api_key' \in BOOLEAN
    /\ UNCHANGED <<call, cvars, pool, cse_id, state_file, out_files>>

Next ==
    \/ Start
    \/ SearchRequest
    \/ SearchResponse
    \/ PageDelay
    \/ PageRequest
    \/ PageResponse
    \/ Dedup
    \/ \E i \in 1 .. NumIds : i \in DOMAIN detail_tasks /\ TaskStart(i)
    \/ \E i \in 1 .. NumIds : i \in DOMAIN detail_tasks /\ DetailsResponse(i)
    \/ \E i \in 1 .. NumIds : i \in DOMAIN detail_tasks /\ SocialResponse(i)
    \/ Aggregate
    \/ LockAcquire
    \/ Save
    \/ WriteCity
    \/ NextRun

Spec == Init /\ [][Next]_vars
(***************************************************************************)
(* FairSpec: the pipeline with every fetch_json call run attempt by        *)
(* attempt.  The calls in progress are counted by control state in pool,   *)
(* as in SpecPool (which task a call belongs to does not matter to the     *)
(* call); a call is made at "acquire", takes a permit, makes its attempts  *)
(* and sleeps, and the step in which it returns is the step in which its   *)
(* caller goes on with the document returned.  The event loop runs a task  *)
(* that can run and the upstream ends every attempt, by an answer, an      *)
(* error or the timeout of 10 s: weak fairness of the steps of a run.      *)
(* One run, started without a state file or with the state file of earlier *)
(* runs that enriched every place.                                         *)
(***************************************************************************)
FairInit ==
    /\ sem = SEM_PERMITS
    /\ call = NoCall
    /\ pool = [k \in PoolStates |-> 0]
    /\ api_key \in BOOLEAN
    /\ cse_id \in BOOLEAN
    /\ state_file \in {NoStateFile, SavedFile(Ids)}
    /\ out_files = [f \in FileNames |-> NoFile]
    /\ run = 1
    /\ Fresh
    /\ NoClassify
    /\ search = NoSearch

\* a caller has called fetch_json: the call waits at "async with SEM"
FetchCall(p) == Move(p, [pc |-> "new"], CallAcquire)

\* line 138: fetch_json is called for "<keyword> em <bairro>"
SearchCall ==
    /\ pc = "search"
    /\ pc' = "search_wait"
    /\ pool' = FetchCall(pool)
    /\ UNCHANGED <<sem, call, cvars, api_key, cse_id, state_file, out_files, run,
                   ci, bi, ki, all_results_city, place_ids, detail_tasks,
                   processed_place_ids, all_companies, lock, to_write, loaded_ids>>

\* line 153: fetch_json is called with the page token
PageCall ==
    /\ pc = "page"
    /\ pc' = "page_wait"
    /\ pool' = FetchCall(pool)
    /\ UNCHANGED <<sem, call, cvars, api_key, cse_id, state_file, out_files, run,
                   ci, bi, ki, all_results_city, place_ids, detail_tasks,
                   processed_place_ids, all_companies, lock, to_write, loaded_ids>>

\* process_pharmacy starts: get_company_details calls fetch_json (line 166)
TaskCall(i) ==
    /\ pc = "gather"
    /\ detail_tasks[i].pc = "start"
    /\ detail_tasks' = [detail_tasks EXCEPT ![i].pc = "details"]
    /\ pool' = FetchCall(pool)
    /\ UNCHANGED <<sem, call, cvars, api_key, cse_id, state_file, out_files, run, pc,
                   ci, bi, ki, all_results_city, place_ids, processed_place_ids,
                   all_companies, lock, to_write, loaded_ids>>

\* line 97: a waiting call takes a permit and enters the loop
FetchEnter ==
    /\ pool[<<"acquire", 0>>] > 0
    /\ CanAcquire(sem)
    /\ EnterLoop.pc = "request"
    /\ sem' = sem - 1
    /\ pool' = Move(pool, CallAcquire, EnterLoop)
    /\ UNCHANGED <<call, cvars, pvars>>

\* lines 104-125: an attempt fails and the call sleeps before the next one
FetchAttempt ==
    /\ \E a \in 0 .. retries - 1 :
         LET c == [pc |-> "request", attempt |-> a, result |-> EMPTY] IN
         /\ pool[<<"request", a>>] > 0
         /\ \E nxt \in {AfterAttempt(c, o) : o \in Outcomes} :
              /\ nxt.pc = "sleep"
              /\ pool' = Move(pool, c, nxt)
    /\ UNCHANGED <<sem, call, cvars, pvars>>

\* "continue" after asyncio.sleep(wait_time): the next attempt
FetchWake ==
    /\ \E a \in 0 .. retries - 1 :
         LET c == [pc |-> "sleep", attempt |-> a, result |-> EMPTY]
             nxt == AfterSleep(c) IN
         /\ pool[<<"sleep", a>>] > 0
         /\ nxt.pc = "request"
         /\ pool' = Move(pool, c, nxt)
    /\ UNCHANGED <<sem, call, cvars, pvars>>

\* The calls that can return now: <<control state left, state "returned">>,
\* from an attempt (line 103, or "break" and line 126) or from the sleep
\* after the last attempt (line 126).
Returns ==
    LET reqs == {c \in [pc : {"request"}, attempt : 0 .. retries - 1, result : {EMPTY}] :
                    pool[PoolKey(c)] > 0}
        slps == {c \in [pc : {"sleep"}, attempt : 0 .. retries - 1, result : {EMPTY}] :
                    pool[PoolKey(c)] > 0}
    IN UNION {{<<c, nxt>> : nxt \in {n \in {AfterAttempt(c, o) : o \in Outcomes} :
                                        n.pc = "returned"}} : c \in reqs}
       \cup {<<c, AfterSleep(c)>> : c \in {x \in slps : AfterSleep(x).pc = "returned"}}

\* the documents of an endpoint that fetch_json hands over when it returns
\* result: {} , or the JSON body of the successful attempt
DocsOf(result, docs) == {d \in docs : d.nonempty = (result # EMPTY)}

\* lines 138-148: the call of the first page returns
SearchReturn ==
    /\ pc = "search_wait"
    /\ \E r \in Returns :
         /\ pool' = Move(pool, r[1], r[2])
         /\ sem' = sem + Release(r[1], r[2])
         /\ \E data \in DocsOf(r[2].result, SearchResponses(Page1(Bairro, ki))) :
              IF ~data.nonempty
              THEN /\ AfterKeyword
                   /\ UNCHANGED all_results_city
              ELSE /\ all_results_city' = all_results_city \o data.results
                   /\ IF data.next_page_token
                      THEN /\ pc' = "page_sleep" /\ UNCHANGED <<bi, ki>>
                      ELSE AfterKeyword
    /\ UNCHANGED <<call, cvars, api_key, cse_id, state_file, out_files, run, ci,
                   place_ids, detail_tasks, processed_place_ids, all_companies,
                   lock, to_write, loaded_ids>>

\* lines 153-157: the call of the second page returns
PageReturn ==
    /\ pc = "page_wait"
    /\ \E r \in Returns :
         /\ pool' = Move(pool, r[1], r[2])
         /\ sem' = sem + Release(r[1], r[2])
         /\ \E data_next \in DocsOf(r[2].result, SearchResponses(Page2(Bairro, ki))) :
              /\ all_results_city' =
                    (IF data_next.nonempty /\ data_next.status = "OK"
                     THEN all_results_city \o data_next.results
                     ELSE all_results_city)
              /\ AfterKeyword
    /\ UNCHANGED <<call, cvars, api_key, cse_id, state_file, out_files, run, ci,
                   place_ids, detail_tasks, processed_place_ids, all_companies,
                   lock, to_write, loaded_ids>>

\* lines 166-173 and 223-230: the details call returns; with details and a
\* search engine, get_social_media_links calls fetch_json (line 188)
DetailsReturn(i) ==
    /\ pc = "gather"
    /\ detail_tasks[i].pc = "details"
    /\ \E r \in Returns :
         /\ sem' = sem + Release(r[1], r[2])
         /\ \E data \in DocsOf(r[2].result, DetailResponses(detail_tasks[i].pid)) :
              LET t == AfterDetails(detail_tasks[i], data, cse_id) IN
              /\ detail_tasks' = [detail_tasks EXCEPT ![i] = t]
              /\ pool' = IF t.pc = "social"
                         THEN FetchCall(Move(pool, r[1], r[2]))
                         ELSE Move(pool, r[1], r[2])
    /\ UNCHANGED <<call, cvars, api_key, cse_id, state_file, out_files, run, pc,
                   ci, bi, ki, all_results_city, place_ids, processed_place_ids,
                   all_companies, lock, to_write, loaded_ids>>

\* SocialReturn with process_pharmacy returning None when the web search
\* returned {}
SocialReturn_Drops(i) ==
    /\ pc = "gather"
    /\ detail_tasks[i].pc = "social"
    /\ \E r \in Returns :
         /\ pool' = Move(pool, r[1], r[2])
         /\ sem' = sem + Release(r[1], r[2])
         /\ \E data \in DocsOf(r[2].result, SocialResponses(detail_tasks[i].pid)) :
              detail_tasks' = [detail_tasks EXCEPT
                  ![i].pc = "done",
                  ![i].result = IF ~data.nonempty THEN NoCompany
                                ELSE Company([detail_tasks[i].result.data EXCEPT
                                                 !.SocialLinks = SocialLinks(data)])]
    /\ UNCHANGED <<call, cvars, api_key, cse_id, state_file, out_files, run, pc,
                   ci, bi, ki, all_results_city, place_ids, processed_place_ids,
                   all_companies, lock, to_write, loaded_ids>>

\* lines 188-194 and 230-254: the web search call returns, the record is built
SocialReturn(i) ==
    /\ pc = "gather"
    /\ detail_tasks[i].pc = "social"
    /\ \E r \in Returns :
         /\ pool' = Move(pool, r[1], r[2])
         /\ sem' = sem + Release(r[1], r[2])
         /\ \E data \in DocsOf(r[2].result, SocialResponses(detail_tasks[i].pid)) :
              detail_tasks' = [detail_tasks EXCEPT
                  ![i].pc = "done",
                  ![i].result = Company([detail_tasks[i].result.data EXCEPT
                                            !.SocialLinks = SocialLinks(data)])]
    /\ UNCHANGED <<call, cvars, api_key, cse_id, state_file, out_files, run, pc,
                   ci, bi, ki, all_results_city, place_ids, processed_place_ids,
                   all_companies, lock, to_write, loaded_ids>>

\* the steps of a run
RunStep ==
    \/ Start
    \/ SearchCall
    \/ FetchEnter
    \/ FetchAttempt
    \/ FetchWake
    \/ SearchReturn
    \/ PageDelay
    \/ PageCall
    \/ PageReturn
    \/ Dedup
    \/ \E i \in 1 .. NumIds : i \in DOMAIN detail_tasks /\ TaskCall(i)
    \/ \E i \in 1 .. NumIds : i \in DOMAIN detail_tasks /\ DetailsReturn(i)
    \/ \E i \in 1 .. NumIds : i \in DOMAIN detail_tasks /\ SocialReturn(i)
    \/ Aggregate
    \/ LockAcquire
    \/ Save
    \/ WriteCity

FairNext == RunStep

FairSpec == FairInit /\ [][FairNext]_vars /\ WF_vars(RunStep)

(***************************************************************************)
(* SpecClassify: classify_company_size applied to one review count, by     *)
(* the collector (main, line 322) and by the dashboard (tst.py, line 134). *)
(***************************************************************************)
InitClassify ==
    /\ sem = SEM_PERMITS
    /\ call = NoCall
    /\ pool = <<>>
    /\ NoPipeline
    /\ user_ratings_total \in RatingInputs
    /\ company_size = NoSize
    /\ search = NoSearch

Classify ==
    /\ ~company_size.called
    /\ company_size' = [called |-> TRUE,
                        desenvolvimento |-> classify_company_size(user_ratings_total),
                        tst |-> tst_classify_company_size(user_ratings_total)]
    /\ UNCHANGED <<sem, call, pool, pvars, user_ratings_total, search>>

NextClassify == Classify

SpecClassify == InitClassify /\ [][NextClassify]_vars

(***************************************************************************)
(* SpecSearch: one call of search_pharmacies_by_bairro (lines 128-158)     *)
(* with a clock.  Each fetch_json call is a request and the document it    *)
(* returns ({} after a failure); SpecCall looks inside the call.           *)
(***************************************************************************)
\* line 148: asyncio.sleep(2)
PAGE_DELAY == 2

\* the token of the document that answers page number page of keyword k
TokenOf(k, page) == <<"token", k, page>>

Bairros ==
    UNION {Range(CIDADES_E_BAIRROS[i].bairros) : i \in DOMAIN CIDADES_E_BAIRROS}

InitSearch ==
    /\ sem = SEM_PERMITS
    /\ call = NoCall
    /\ pool = <<>>
    /\ NoPipeline
    /\ NoClassify
    /\ search \in {NewSearch(bairro) : bairro \in Bairros}

\* time passes; the clock stops at MaxTime, or when a sleep begun by then is over
Tick ==
    /\ search.pc # "returned"
    /\ \/ search.now < MaxTime
       \/ search.pc = "sleep" /\ search.now < search.token_at + PAGE_DELAY
    /\ search' = [search EXCEPT !.now = @ + 1]
    /\ UNCHANGED <<sem, call, pool, pvars, user_ratings_total, company_size>>

\* lines 132-138: the text search for "<keyword> em <bairro>"
KeywordRequest ==
    /\ search.pc = "keyword"
    /\ search' = [search EXCEPT
                    !.pc = "wait",
                    !.sent = Append(@, [kind |-> "query", k |-> search.k,
                                        query |-> <<KEYWORDS[search.k], "em", search.bairro>>,
                                        pagetoken |-> <<>>, at |-> search.now])]
    /\ UNCHANGED <<sem, call, pool, pvars, user_ratings_total, company_size>>

\* the end of one iteration of "for keyword in KEYWORDS"; line 158 after the last
NextKeyword(s) ==
    IF s.k < Len(KEYWORDS)
    THEN [s EXCEPT !.k = @ + 1, !.pc = "keyword"]
    ELSE [s EXCEPT !.pc = "returned"]

\* lines 141-145: the results of the first page are kept whatever its status
Accumulate_OkOnly(all_results, data) ==
    IF data.status \in {"OK", "ZERO_RESULTS"}
    THEN all_results \o data.results
    ELSE all_results
Accumulate(all_results, data) == all_results \o data.results

\* lines 139-148: the first page arrives
KeywordResponse ==
    /\ search.pc = "wait"
    /\ \E data \in SearchResponses(Page1(search.bairro, search.k)) :
         LET got == [search EXCEPT
                       !.received = Append(@, [k |-> search.k, page |-> 1,
                                               doc |-> data, at |-> search.now])]
         IN  IF ~data.nonempty
             THEN search' = NextKeyword(got)
             ELSE IF data.next_page_token
                  THEN search' = [got EXCEPT
                                    !.all_results = Accumulate(@, data),
                                    !.next_page_token = TokenOf(search.k, 1),
                                    !.token_at = search.now,
                                    !.pc = "sleep"]
                  ELSE search' = NextKeyword([got EXCEPT
                                    !.all_results = Accumulate(@, data)])
    /\ UNCHANGED <<sem, call, pool, pvars, user_ratings_total, company_size>>

\* line 148: asyncio.sleep(2) returns no earlier than 2 seconds after it began
SleepOver_NoDelay(now, since) == TRUE
SleepOver(now, since) == now >= since + PAGE_DELAY

\* lines 148-153: after the sleep, the request with the page token
TokenRequest ==
    /\ search.pc = "sleep"
    /\ SleepOver(search.now, search.token_at)
    /\ search' = [search EXCEPT
                    !.pc = "page_wait",
                    !.sent = Append(@, [kind |-> "pagetoken", k |-> search.k,
                                        query |-> <<>>,
                                        pagetoken |-> search.next_page_token,
                                        at |-> search.now])]
    /\ UNCHANGED <<sem, call, pool, pvars, user_ratings_total, company_size>>

\* lines 154-157: the results of the second page are kept when it is OK
Merge(all_results, data_next) ==
    IF data_next.nonempty /\ data_next.status = "OK"
    THEN all_results \o data_next.results
    ELSE all_results

\* lines 153-157: the second page arrives; a token in it is not looked at
TokenResponse ==
    /\ search.pc = "page_wait"
    /\ \E data_next \in SearchResponses(Page2(search.bairro, search.k)) :
         search' = NextKeyword([search EXCEPT
                      !.received = Append(@, [k |-> search.k, page |-> 2,
                                              doc |-> data_next, at |-> search.now]),
                      !.all_results = Merge(@, data_next)])
    /\ UNCHANGED <<sem, call, pool, pvars, user_ratings_total, company_size>>

NextSearch ==
    \/ Tick
    \/ KeywordRequest
    \/ KeywordResponse
    \/ TokenRequest
    \/ TokenResponse

SpecSearch == InitSearch /\ [][NextSearch]_vars

(***************************************************************************)
(* Properties of the pipeline.                                             *)
(***************************************************************************)
\* the ids of the records of a sequence
IdsOf(rows) == {rows[k].PlaceID : k \in DOMAIN rows}

\* the ids enriched in this run
EnrichedIds == UNION {IdsOf(all_companies[c]) : c \in DOMAIN all_companies}

\* the batch in detail_tasks has been aggregated (gather has returned)
Aggregated == pc # "gather" /\ detail_tasks # <<>>

\* the file of city c has been written by main in this run
WrittenThisRun(c) ==
    /\ pc \in {"main", "done"}
    /\ c \in DOMAIN all_companies
    /\ \A k \in DOMAIN to_write : to_write[k] # c

\* C5: a run that starts from a persisted ProcessedIdSet issues no detail
\* fetch for, and produces no enriched record for, any id of that set.
C5_Idempotent ==
    /\ \A i \in DOMAIN detail_tasks : detail_tasks[i].pid \notin loaded_ids
    /\ EnrichedIds \cap loaded_ids = {}

\* run 2 has loaded ids of run 1, the search has returned one of them
\* again, and the batch of the city is running
C5_Witness ==
    /\ run = 2
    /\ pc = "gather"
    /\ \E k \in DOMAIN all_results_city : all_results_city[k] \in loaded_ids
    /\ \E i \in DOMAIN detail_tasks : detail_tasks[i].pc = "details"

\* C6: however often an id is repeated in the candidate list, the
\* enrichment stage starts process_pharmacy at most once for it.
C6_EachIdOnce ==
    \A i, j \in DOMAIN detail_tasks :
        detail_tasks[i].pid = detail_tasks[j].pid => i = j

\* an id is repeated in the candidate list and has a task
C6_Witness ==
    /\ pc = "gather"
    /\ \E i, j \in DOMAIN all_results_city :
         /\ i # j
         /\ all_results_city[i] = all_results_city[j]
         /\ \E t \in DOMAIN detail_tasks :
              /\ detail_tasks[t].pid = all_results_city[i]
              /\ detail_tasks[t].pc # "start"

\* C7: within a run every step leaves the in-memory ProcessedIdSet a
\* superset of what it was.
C7_OnlyGrows ==
    [][run' = run => processed_place_ids \subseteq processed_place_ids']_vars

\* the set loaded at the start of run 2 has grown in run 2
C7_Witness ==
    /\ run = 2
    /\ loaded_ids # {}
    /\ loaded_ids \subseteq processed_place_ids
    /\ processed_place_ids # loaded_ids

\* C8: a file written by this run holds only records enriched in this
\* run: every row is a record of all_companies for that city, and none has
\* an id that was in ProcessedIdSet when the run started.
C8_FileOfThisRun ==
    \A c \in Cities :
        WrittenThisRun(c) =>
            LET f == out_files[FileName(c)] IN
            /\ f.exists
            /\ IdsOf(f.content) \cap loaded_ids = {}
            /\ \A k \in DOMAIN f.content :
                 \E j \in DOMAIN all_companies[c] :
                     /\ all_companies[c][j].PlaceID = f.content[k].PlaceID
                     /\ all_companies[c][j].Name = f.content[k].Name
            /\ Len(f.content) <= Len(all_companies[c])

\* run 2 has rewritten the file of Sao Paulo, which run 1 had written (the
\* loaded ids can only come from there: Campinas has no file)
C8_Witness ==
    /\ run = 2
    /\ loaded_ids # {}
    /\ ~out_files[FileName("Campinas")].exists
    /\ WrittenThisRun("Sao Paulo")
    /\ out_files[FileName("Sao Paulo")].content # <<>>

\* the rows with id pid
HasRow(rows, pid) == \E k \in DOMAIN rows : rows[k].PlaceID = pid

\* C9: once the batch is aggregated, a task whose details document had no
\* 'result' field has no record for its city and its id is not in
\* ProcessedIdSet, nor is it in the file written for the city; every task of
\* the batch is done, and each task whose details had a result is recorded.
C9_DroppedEntity ==
    Aggregated =>
        \A i \in DOMAIN detail_tasks :
            LET t == detail_tasks[i] IN
            /\ t.pc = "done"
            /\ ~t.has_result =>
                 /\ t.pid \notin processed_place_ids
                 /\ t.city \in DOMAIN all_companies
                      => ~HasRow(all_companies[t.city], t.pid)
                 /\ WrittenThisRun(t.city)
                      => ~HasRow(out_files[FileName(t.city)].content, t.pid)
            /\ t.has_result =>
                 /\ t.pid \in processed_place_ids
                 /\ t.city \in DOMAIN all_companies
                 /\ HasRow(all_companies[t.city], t.pid)

\* a batch with a dropped entity and a recorded sibling, its file written
C9_Witness ==
    /\ pc = "done"
    /\ \E i, j \in DOMAIN detail_tasks :
         /\ ~detail_tasks[i].has_result
         /\ detail_tasks[j].has_result
         /\ WrittenThisRun(detail_tasks[i].city)
         /\ HasRow(out_files[FileName(detail_tasks[j].city)].content,
                   detail_tasks[j].pid)

\* the ids of the batch whose detail fetch succeeded
Succeeded == {detail_tasks[i].pid : i \in {j \in DOMAIN detail_tasks : detail_tasks[j].has_result}}

\* both tasks of a batch of two succeeded, with distinct name or address
\* and valid coordinates
TwoGood ==
    /\ Len(detail_tasks) = 2
    /\ \A i \in DOMAIN detail_tasks :
         /\ detail_tasks[i].has_result
         /\ detail_tasks[i].result.some
         /\ detail_tasks[i].result.data.Latitude.t = "num"
         /\ detail_tasks[i].result.data.Longitude.t = "num"
    /\ \/ detail_tasks[1].result.data.Name # detail_tasks[2].result.data.Name
       \/ detail_tasks[1].result.data.Address # detail_tasks[2].result.data.Address

\* C10: the step that aggregates a batch adds to ProcessedIdSet exactly the
\* ids of the batch whose detail fetch succeeded (two ids when both tasks of
\* a batch of two succeeded), and the file written for a batch of two good
\* records holds exactly 2 rows.
C10_BatchGrowth ==
    /\ [][(pc = "gather" /\ pc' # "gather") =>
            /\ processed_place_ids' = processed_place_ids \cup Succeeded
            /\ Succeeded \cap processed_place_ids = {}
            /\ Cardinality(processed_place_ids')
                 = Cardinality(processed_place_ids) + Cardinality(Succeeded)
            /\ TwoGood => Cardinality(processed_place_ids')
                            = Cardinality(processed_place_ids) + 2]_vars
    /\ [](\A c \in Cities :
            (Aggregated /\ TwoGood /\ detail_tasks[1].city = c /\ WrittenThisRun(c))
              => Len(out_files[FileName(c)].content) = 2)

\* a batch of two good records, aggregated and written
C10_Witness ==
    /\ pc = "done"
    /\ TwoGood
    /\ WrittenThisRun(detail_tasks[1].city)
    /\ Len(out_files[FileName(detail_tasks[1].city)].content) = 2
    /\ Cardinality(processed_place_ids) = Cardinality(loaded_ids) + 2

\* the city of the loop has no unseen id: "if not place_ids" is true
NoUnseen == UnseenIds(all_results_city, processed_place_ids, <<>>) = <<>>

\* C11: when the dedup step of a city finds no unseen id, the step starts no
\* task and takes no permit, leaves ProcessedIdSet, the state file and the
\* output files as they were and goes on to the next city (or to main)
\* without passing through the gather or the save; the city gets no entry in
\* all_companies, in this step or later in the run, and main writes only
\* the files of the cities that have an entry.
C11_EmptyAreaSkipped ==
    [][/\ (pc = "dedup" /\ NoUnseen) =>
            /\ pc' \in {"search", "main", "done"}
            /\ UNCHANGED <<processed_place_ids, state_file, out_files,
                           detail_tasks, sem, all_companies>>
            /\ City \notin DOMAIN all_companies'
       /\ \A c \in Cities :
            /\ (c \in DOMAIN all_companies' /\ c \notin DOMAIN all_companies)
                  => (pc = "gather" /\ City = c)
            /\ (run' = run /\ out_files'[FileName(c)] # out_files[FileName(c)])
                  => (pc = "main" /\ c \in DOMAIN all_companies)]_vars

\* run 2 is over without a single batch: the last city had candidates, all
\* of them already in the ProcessedIdSet loaded from the state file, which
\* is as run 1 left it
C11_Witness ==
    /\ run = 2
    /\ pc = "done"
    /\ detail_tasks = <<>>
    /\ all_results_city # <<>>
    /\ Range(all_results_city) \subseteq loaded_ids
    /\ state_file.ids = loaded_ids

\* collect_data is in the search stage of the city of the loop
Searching == pc \in {"search", "search_wait", "page_sleep", "page", "page_wait"}

\* the cities before the city of the loop
EarlierCities == {CIDADES_E_BAIRROS[k].city : k \in 1 .. ci - 1}

\* the place of a city in the configuration
CityIndex(c) == CHOOSE k \in DOMAIN CIDADES_E_BAIRROS : CIDADES_E_BAIRROS[k].city = c

\* what the state file holds (absent file: nothing)
PersistedIds == IF state_file.exists THEN state_file.ids ELSE {}

Running == pc \notin {"startup", "aborted", "done"}

BatchRunning ==
    pc = "gather" /\ \E i \in DOMAIN detail_tasks : detail_tasks[i].pc # "done"

\* the ids of the batch
BatchIds == {detail_tasks[i].pid : i \in DOMAIN detail_tasks}

\* C14: while a task of the batch is running, collect_data stays in the
\* gather: no step adds an id to ProcessedIdSet, writes the state file or
\* changes all_companies, no id of the batch is in ProcessedIdSet and no
\* record of the batch is in all_companies, whether or not tasks of the
\* batch have already ended, with a record or with None.
C14_FanInWaits ==
    /\ [](BatchRunning =>
            /\ BatchIds \cap processed_place_ids = {}
            /\ BatchIds \cap PersistedIds = {}
            /\ BatchIds \cap EnrichedIds = {}
            /\ ~lock)
    /\ [][BatchRunning =>
            /\ pc' = "gather"
            /\ UNCHANGED <<processed_place_ids, state_file, all_companies, out_files>>]_vars

\* one task of the batch has ended as a drop, one with a record, and a
\* third is still waiting for its details
C14_Witness ==
    /\ pc = "gather"
    /\ \E i, j, k \in DOMAIN detail_tasks :
         /\ detail_tasks[i].pc = "done" /\ ~detail_tasks[i].result.some
         /\ detail_tasks[j].pc = "done" /\ detail_tasks[j].result.some
         /\ detail_tasks[k].pc = "details"
    /\ BatchIds \cap processed_place_ids = {}

\* In this step a fetch_json call returns from the sleep that follows its
\* last attempt: every attempt has failed and the call returns {} .
ExhaustedReturn ==
    pool'[<<"sleep", retries - 1>>] < pool[<<"sleep", retries - 1>>]

\* in this step task i leaves control state p
TaskLeaves(i, p) ==
    /\ i \in DOMAIN detail_tasks
    /\ pc = "gather" /\ pc' = "gather"
    /\ detail_tasks[i].pc = p
    /\ detail_tasks'[i].pc # p

\* C15, as stated, for the failure that the step shows (all attempts
\* failed): when the details call or the web search call of a task returns
\* {} , the task ends with no record.
C15_FetchFailureDrops ==
    [][\A i \in 1 .. NumIds :
          ((TaskLeaves(i, "details") \/ TaskLeaves(i, "social")) /\ ExhaustedReturn)
            => (detail_tasks'[i].pc = "done" /\ ~detail_tasks'[i].result.some)]_vars

\* C15, amended: a task whose details call returns {} (or a document
\* without 'result') ends with no record; a task whose web search call
\* returns {} ends with its record, the list of links empty; every task that
\* got details ends with a record of its id.  A step of one task leaves the
\* other tasks of the batch as they are and the batch in the gather, and
\* while a task of the batch is running some step of the run can be taken.
C15_DetailsFailureDrops ==
    /\ [][\A i \in 1 .. NumIds :
            /\ (TaskLeaves(i, "details") /\ ExhaustedReturn)
                 => /\ detail_tasks'[i].pc = "done"
                    /\ ~detail_tasks'[i].has_result
            /\ TaskLeaves(i, "social")
                 => LET t == detail_tasks'[i] IN
                    /\ t.pc = "done" /\ t.has_result /\ t.result.some
                    /\ t.result.data.PlaceID = t.pid
                    /\ t.result.data.Name = detail_tasks[i].result.data.Name
                    /\ ExhaustedReturn => t.result.data.SocialLinks = <<>>
            /\ (TaskLeaves(i, "details") \/ TaskLeaves(i, "social"))
                 => \A j \in DOMAIN detail_tasks :
                       j # i => detail_tasks'[j] = detail_tasks[j]]_vars
    /\ [](\A i \in DOMAIN detail_tasks :
            LET t == detail_tasks[i] IN
            /\ (t.pc = "done" /\ ~t.has_result) => ~t.result.some
            /\ (t.pc = "done" /\ t.has_result)
                 => (t.result.some /\ t.result.data.PlaceID = t.pid)
            /\ t.pc = "social" => (t.has_result /\ cse_id))
    /\ [](BatchRunning => ENABLED RunStep)

\* every attempt of the web search call of a task has failed and the call is
\* in its last sleep, about to return {} ; the other tasks of the batch are
\* done, one of them dropped for want of details
C15_Witness ==
    /\ pc = "gather"
    /\ pool[<<"sleep", retries - 1>>] = 1
    /\ \A k \in PoolStates : k # <<"sleep", retries - 1>> => pool[k] = 0
    /\ \E i, j \in DOMAIN detail_tasks :
         /\ detail_tasks[i].pc = "social"
         /\ detail_tasks[j].pc = "done" /\ ~detail_tasks[j].result.some
         /\ \A k \in DOMAIN detail_tasks : k # i => detail_tasks[k].pc = "done"

\* C16: every step that adds an id to ProcessedIdSet, and every step that
\* writes the state file, is taken while the lock of collect_data is held.
C16_MutationsUnderLock ==
    [][/\ (run' = run /\ pc # "startup"
              /\ processed_place_ids' # processed_place_ids) => lock
       /\ state_file' # state_file => lock]_vars

\* the calls inside "async with SEM": an attempt in flight, or asleep
PoolHolders == PoolCount("request", retries - 1) + PoolCount("sleep", retries - 1)

\* C17: every call that has a request in flight or sleeps between attempts
\* holds one permit, and no permit is held otherwise: the free permits and
\* the calls inside "async with SEM" always add up to 20, whichever way the
\* calls have returned.  So a request is never in flight without a permit,
\* and when no call is in progress all 20 permits are free.
C17_PermitAccounting ==
    /\ sem >= 0
    /\ sem + PoolHolders = SEM_PERMITS
    /\ PoolInFlight <= SEM_PERMITS - sem
    /\ (\A k \in PoolStates : pool[k] = 0) => sem = SEM_PERMITS

\* every permit is held by a call asleep after its last attempt, each about
\* to leave by "return {}", while one more call waits
C17_Witness ==
    /\ pool[<<"sleep", retries - 1>>] = SEM_PERMITS
    /\ sem = 0
    /\ pool[<<"acquire", 0>>] = 1

\* C18: a process started without the API key never gets past startup: it
\* aborts, no fetch_json call is made (no permit is ever taken, no search,
\* batch or task exists) and no step of it changes the state file or an
\* output file.
C18_NoKeyAborts ==
    /\ [](~api_key =>
            /\ pc \in {"startup", "aborted"}
            /\ sem = SEM_PERMITS
            /\ all_results_city = <<>> /\ place_ids = <<>> /\ detail_tasks = <<>>
            /\ processed_place_ids = {} /\ all_companies = <<>>)
    /\ [][~api_key =>
            /\ pc' = "aborted"
            /\ api_key' = api_key
            /\ UNCHANGED <<sem, state_file, out_files>>]_vars

\* the second run was started without the key and has aborted; the files of
\* the first run are there
C18_Witness ==
    /\ run = 2
    /\ ~api_key
    /\ pc = "aborted"
    /\ state_file.exists
    /\ \E f \in FileNames : out_files[f].exists

\* the class the specification gives to a review count
SizeOf(x) ==
    IF x.t # "num" \/ x.v = 0 THEN "Pequena"
    ELSE IF x.v >= 100 THEN "Grande"
    ELSE IF x.v \in 20 .. 99 THEN "Média"
    ELSE "Pequena"

\* C19: for every review count, absent ones included, both classifiers
\* return a class, the class of the specification, and the same one; in
\* particular 19 is Small, 20 and 99 Medium, 100 and 1000 Large.
C19_SizeClassification ==
    company_size.called =>
        /\ company_size.desenvolvimento \in {"Pequena", "Média", "Grande"}
        /\ company_size.desenvolvimento = SizeOf(user_ratings_total)
        /\ company_size.tst = company_size.desenvolvimento
        /\ user_ratings_total \in {None, NaN, Num(0), Num(19)}
             => company_size.desenvolvimento = "Pequena"
        /\ user_ratings_total \in {Num(20), Num(99)}
             => company_size.desenvolvimento = "Média"
        /\ user_ratings_total \in {Num(100), Num(1000)}
             => company_size.desenvolvimento = "Grande"

\* a count of exactly 100 has been classified, as Large by both
C19_Witness ==
    /\ company_size.called
    /\ user_ratings_total = Num(100)
    /\ company_size.desenvolvimento = "Grande"
    /\ company_size.tst = "Grande"

\* a record with numeric latitude and longitude
ValidCoordinates(rec) == rec.Latitude.t = "num" /\ rec.Longitude.t = "num"

\* C20: in the file that main has written for a city, no row comes from a
\* record enriched without numeric latitude and longitude, and every record
\* enriched with valid coordinates has a row with its name and address.
C20_CoordinateFilter ==
    \A c \in Cities :
        WrittenThisRun(c) =>
            LET f == out_files[FileName(c)].content IN
            \A k \in DOMAIN all_companies[c] :
                LET rec == all_companies[c][k] IN
                /\ ~ValidCoordinates(rec) => ~HasRow(f, rec.PlaceID)
                /\ ValidCoordinates(rec) =>
                     \E j \in DOMAIN f :
                         f[j].Name = rec.Name /\ f[j].Address = rec.Address

(***************************************************************************)
(* Properties of the search stage.                                         *)
(***************************************************************************)
\* the requests of one kind sent for keyword k, and the documents received
\* for page number page of keyword k
SentOf(kind, k) ==
    {i \in DOMAIN search.sent : search.sent[i].kind = kind /\ search.sent[i].k = k}
ReceivedOf(k, page) ==
    {j \in DOMAIN search.received :
        search.received[j].k = k /\ search.received[j].page = page}
\* the loop has left keyword k behind
KeywordOver(k) == search.pc = "returned" \/ search.k > k
CarriesToken(doc) == doc.nonempty /\ doc.next_page_token

\* at most one follow-up per keyword; it answers a first page that carried a
\* token, carries that token and leaves PAGE_DELAY seconds or more after the
\* token arrived; once the keyword is over, a token has had its follow-up
FollowUps ==
    \A k \in DOMAIN KEYWORDS :
        /\ Cardinality(SentOf("pagetoken", k)) <= 1
        /\ \A i \in SentOf("pagetoken", k) :
              \E j \in ReceivedOf(k, 1) :
                  /\ CarriesToken(search.received[j].doc)
                  /\ search.sent[i].pagetoken = TokenOf(k, 1)
                  /\ search.sent[i].at >= search.received[j].at + PAGE_DELAY
        /\ KeywordOver(k) =>
              \A j \in ReceivedOf(k, 1) :
                  CarriesToken(search.received[j].doc) => SentOf("pagetoken", k) # {}

\* the step in which the document of a follow-up arrives
FollowUpArrives ==
    /\ Len(search'.received) = Len(search.received) + 1
    /\ search'.received[Len(search'.received)].page = 2
ArrivedDoc == search'.received[Len(search'.received)].doc

RECURSIVE AllResults(_)
\* the results of every document of a sequence of received documents, in order
AllResults(received) ==
    IF received = <<>> THEN <<>>
    ELSE Head(received).doc.results \o AllResults(Tail(received))

RECURSIVE KeptResults(_)
\* the same, without the follow-up documents that are not OK
KeptResults(received) ==
    IF received = <<>> THEN <<>>
    ELSE (IF Head(received).page = 1 \/ Head(received).doc.status = "OK"
          THEN Head(received).doc.results ELSE <<>>)
         \o KeptResults(Tail(received))

\* the documents arrive in keyword order, and when the function returns
\* every keyword has been searched once and answered
EveryKeywordSearched ==
    /\ \A i, j \in DOMAIN search.received :
          i < j => search.received[i].k <= search.received[j].k
    /\ search.pc = "returned" =>
          \A k \in DOMAIN KEYWORDS :
              /\ Cardinality(SentOf("query", k)) = 1
              /\ Cardinality(ReceivedOf(k, 1)) = 1

C23_WaitsBetweenAttempts ==
    /\ Len(call.hist) <= retries
    /\ \A n \in DOMAIN call.hist :
          RetryableFailure(call.hist[n]) <=> n \in DOMAIN call.waits
    /\ \A n \in DOMAIN call.waits : call.waits[n] = WaitTime(n - 1)
    /\ call.st.pc = "sleep" => AfterSleep(call.st).pc = "request"
    /\ call.st.pc = "returned" => Len(call.waits) < Len(call.hist)


(***************************************************************************)
(* Properties of the state file and of the output files (Spec).            *)
(***************************************************************************)
\* collect_data is at the top of the city loop after a first city, or has
\* returned to main
BetweenCities ==
    \/ pc = "search" /\ ci > 1 /\ bi = 1 /\ ki = 1
    \/ pc \in {"main", "done"}

\* C24: whenever collect_data is between two cities or has returned, the
\* state file holds exactly the in-memory set of processed ids if that set
\* differs from what the run loaded; each write of the state file holds a
\* superset of what the file held before and of what the run loaded.
C24_StateFileFollowsSet ==
    [][/\ (BetweenCities' /\ processed_place_ids' # loaded_ids')
            => (state_file'.exists /\ state_file'.ids = processed_place_ids')
       /\ state_file' # state_file
            => /\ state_file'.exists
               /\ PersistedIds \subseteq state_file'.ids
               /\ loaded_ids \subseteq state_file'.ids]_vars

\* a second run that loaded ids from the file has processed a new id in its
\* first city, has saved, and is about to search its second city
C24_Witness ==
    /\ run = 2 /\ loaded_ids # {}
    /\ pc = "search" /\ ci = 2 /\ bi = 1 /\ ki = 1
    /\ processed_place_ids # loaded_ids
    /\ state_file.ids = processed_place_ids


\* the ids of the records collected for the cities before city c
EnrichedBefore(c) ==
    UNION {IdsOf(all_companies[d]) :
              d \in {e \in DOMAIN all_companies : CityIndex(e) < CityIndex(c)}}

\* C25: within one run, an id enriched while processing one city is not
\* submitted to enrichment while processing a later city, even when the
\* later city's searches return it; the records of one id are in at most
\* one city's output file.
C25_EnrichedOncePerRun ==
    /\ \A i \in DOMAIN detail_tasks :
          detail_tasks[i].pid \notin EnrichedBefore(detail_tasks[i].city)
    /\ \A c \in DOMAIN all_companies :
          IdsOf(all_companies[c]) \cap EnrichedBefore(c) = {}
    /\ \A c, d \in Cities :
          c # d => IdsOf(out_files[FileName(c)].content)
                      \cap IdsOf(out_files[FileName(d)].content) = {}

\* the searches of the second city returned an id whose record the first
\* city had collected; the second city enriched another id, and the run has
\* written both files, the first with that record
C25_Witness ==
    /\ pc = "done" /\ ci = 2
    /\ \A c \in Cities : WrittenThisRun(c) /\ out_files[FileName(c)].content # <<>>
    /\ \E k \in DOMAIN all_results_city :
          /\ all_results_city[k] \in EnrichedBefore(City)
          /\ all_results_city[k] \in IdsOf(out_files[FileName(CIDADES_E_BAIRROS[1].city)].content)


\* the run is past its startup
RunStarted == pc \notin {"startup", "aborted"}

\* C26: every id that a run has added to the persisted set of processed ids
\* has a record with that id in an output file written by the same run, in
\* every state after the state file is written.
C26_ProcessedImpliesPersisted ==
    RunStarted =>
        \A id \in PersistedIds \ loaded_ids :
            \E c \in Cities :
                /\ WrittenThisRun(c)
                /\ id \in IdsOf(out_files[FileName(c)].content)

====
